---- MODULE Spec2Model ----
(***************************************************************************)
(* files-to-prompt (files_to_prompt/cli.py): the cli() run over a list of  *)
(* path arguments, and process_path() with its three passes over a         *)
(* directory root: the .gitignore collection walk, the filtered walk and   *)
(* the sorted read/emit loop.                                              *)
(*                                                                         *)
(* Strings are sequences of one-character strings, so that startswith,     *)
(* endswith, fnmatch, the f-string that prefixes a .gitignore line, the    *)
(* split of a pattern on "/" and the string order of sorted() are computed *)
(* as the code computes them.  A path is kept as the sequence of its       *)
(* components; PathStr gives the string os.path.join builds from it.       *)
(* File contents and the line-number option are left out: the renderers    *)
(* are modelled by the lines they write about a file, not by its text.     *)
(***************************************************************************)
EXTENDS Integers, Sequences, FiniteSets, TLC

\* ------------------------------------------------------------------ bounds
MaxPaths == 2     \* longest list all_paths (positional and stdin paths together)
MaxRuns  == 2     \* top-level runs of cli() in one process

\* ------------------------------------------------------------ string tools
Range(s) == {s[k] : k \in 1..Len(s)}

\* The characters the model uses, in code point order (Python compares str
\* by code point): space ! # * . / ? a..z
Alphabet ==
  <<" ", "!", "#", "*", ".", "/", "?",
    "a", "b", "c", "d", "e", "f", "g", "h", "i", "j", "k", "l", "m",
    "n", "o", "p", "q", "r", "s", "t", "u", "v", "w", "x", "y", "z">>

Ord(c) == CHOOSE k \in 1..Len(Alphabet) : Alphabet[k] = c

\* a < b for two strings, as Python's str.__lt__
RECURSIVE StrLess(_, _)
StrLess(a, b) ==
  IF b = <<>> THEN FALSE
  ELSE IF a = <<>> THEN TRUE
  ELSE IF Head(a) = Head(b) THEN StrLess(Tail(a), Tail(b))
  ELSE Ord(Head(a)) < Ord(Head(b))

startswith(s, prefix) ==
  /\ Len(prefix) <= Len(s)
  /\ SubSeq(s, 1, Len(prefix)) = prefix

\* str.endswith with a tuple of suffixes
endswith(s, suffixes) ==
  \E k \in 1..Len(suffixes) :
     /\ Len(suffixes[k]) <= Len(s)
     /\ SubSeq(s, Len(s) - Len(suffixes[k]) + 1, Len(s)) = suffixes[k]

\* str.strip() on the model's only whitespace character
RECURSIVE lstrip(_)
lstrip(s) == IF s # <<>> /\ Head(s) = " " THEN lstrip(Tail(s)) ELSE s

RECURSIVE rstrip(_)
rstrip(s) ==
  IF s # <<>> /\ s[Len(s)] = " " THEN rstrip(SubSeq(s, 1, Len(s) - 1)) ELSE s

strip(s) == rstrip(lstrip(s))

\* str.split("/")
RECURSIVE Split(_)
Split(s) ==
  IF "/" \notin Range(s) THEN <<s>>
  ELSE LET k == CHOOSE j \in 1..Len(s) :
                   s[j] = "/" /\ \A h \in 1..(j - 1) : s[h] # "/"
       IN  <<SubSeq(s, 1, k - 1)>> \o Split(SubSeq(s, k + 1, Len(s)))

\* "/".join(components): os.path.join over a path's components, and as_posix()
RECURSIVE PathStr(_)
PathStr(p) ==
  IF p = <<>> THEN <<".">>
  ELSE IF Len(p) = 1 THEN p[1]
  ELSE p[1] \o <<"/">> \o PathStr(Tail(p))

\* fnmatch.fnmatch(name, pat) for patterns of literals, * and ?
RECURSIVE fnmatch(_, _)
fnmatch(name, pat) ==
  IF pat = <<>> THEN name = <<>>
  ELSE IF Head(pat) = "*"
       THEN \/ fnmatch(name, Tail(pat))
            \/ (name # <<>> /\ fnmatch(Tail(name), pat))
  ELSE IF Head(pat) = "?"
       THEN name # <<>> /\ fnmatch(Tail(name), Tail(pat))
  ELSE name # <<>> /\ Head(name) = Head(pat) /\ fnmatch(Tail(name), Tail(pat))

\* any(fnmatch(name, p) for p in ignore_patterns)
AnyFnmatch(name, patterns) ==
  \E k \in 1..Len(patterns) : fnmatch(name, patterns[k])

\* ------------------------------------------------- pathspec, GitWildMatch
\* pathspec is a library the program calls; it is modelled here by what
\* GitWildMatchPattern does with patterns made of literals, *, ?, ** and /
\* (no character classes, no escapes): a leading ! negates, a pattern with
\* no inner / matches at any depth, a trailing / matches only what lies
\* below the directory, and paths are matched as given, so that a directory
\* path, which process_path passes without a trailing /, is not matched by
\* a pattern that ends in /.
DoubleStar == <<"*", "*">>

\* GitWildMatchPattern.pattern_to_regex: the pattern as (include, segments);
\* regex = FALSE is the null pattern, which matches nothing.
PatternToRegex(pattern) ==
  LET include == ~startswith(pattern, <<"!">>)
      body    == IF include THEN pattern ELSE Tail(pattern)
      segs0   == Split(body)
      segs1   == IF segs0[1] = <<>> THEN Tail(segs0)
                 ELSE IF (Len(segs0) = 1 \/ (Len(segs0) = 2 /\ segs0[2] = <<>>))
                         /\ segs0[1] # DoubleStar
                      THEN <<DoubleStar>> \o segs0
                 ELSE segs0
      segs2   == IF Len(segs1) > 1 /\ segs1[Len(segs1)] = <<>>
                 THEN SubSeq(segs1, 1, Len(segs1) - 1) \o <<DoubleStar>>
                 ELSE segs1
  IN  IF body = <<>> \/ body = <<"/">> \/ startswith(pattern, <<"#">>) \/ segs1 = <<>>
      THEN [regex |-> FALSE, include |-> FALSE, segs |-> <<>>]
      ELSE [regex |-> TRUE, include |-> include, segs |-> segs2]

\* Whether the regex built from the segments matches the path with these
\* components.  A leading or inner ** takes zero or more components, a
\* final ** at least one, and a final glob segment also matches every path
\* below the one it names.
RECURSIVE SegsMatch(_, _)
SegsMatch(segs, comps) ==
  LET last == Len(segs) = 1 IN
  IF Head(segs) = DoubleStar
  THEN IF last
       THEN comps # <<>>
       ELSE \E k \in 0..Len(comps) :
               SegsMatch(Tail(segs), SubSeq(comps, k + 1, Len(comps)))
  ELSE /\ comps # <<>>
       /\ fnmatch(Head(comps), Head(segs))
       /\ (last \/ SegsMatch(Tail(segs), Tail(comps)))

\* PathSpec.from_lines(GitWildMatchPattern, all_patterns)
PathSpecFromLines(lines) == [k \in 1..Len(lines) |-> PatternToRegex(lines[k])]

\* PathSpec.match_files on one path: the last pattern that matches decides
MatchFile(spec, comps) ==
  LET hits == {k \in 1..Len(spec) :
                 spec[k].regex /\ SegsMatch(spec[k].segs, comps)}
  IN  /\ hits # {}
      /\ spec[CHOOSE k \in hits : \A h \in hits : h <= k].include

\* ------------------------------------------------------------ file system
GITIGNORE == <<".", "g", "i", "t", "i", "g", "n", "o", "r", "e">>
R      == <<"r">>
BUILD  == <<"b", "u", "i", "l", "d">>
SUB    == <<"s", "u", "b">>
HID    == <<".", "h">>
KEEP   == <<"k", "e", "e", "p", ".", "l", "o", "g">>
XLOG   == <<"x", ".", "l", "o", "g">>
OPY    == <<"o", ".", "p", "y">>
GONE   == <<"q">>

\* The directories and the plain files of the tree under the working
\* directory; a .gitignore file exists where text says so.
TreeDirs ==
  { <<R>>, <<R, BUILD>>, <<R, SUB>>, <<R, SUB, BUILD>>, <<R, SUB, BUILD, HID>> }

TreeFiles ==
  { <<R, KEEP>>, <<R, XLOG>>, <<R, BUILD, OPY>>,
    <<R, SUB, KEEP>>, <<R, SUB, XLOG>>,
    <<R, SUB, BUILD, OPY>>, <<R, SUB, BUILD, BUILD>>,
    <<R, SUB, BUILD, HID, OPY>> }

NoFile      == [exists |-> FALSE, utf8 |-> TRUE, lines |-> <<>>]
Binary      == [exists |-> TRUE, utf8 |-> FALSE, lines |-> <<>>]
Text(lines) == [exists |-> TRUE, utf8 |-> TRUE, lines |-> lines]

\* lines of .gitignore files, as read (before strip)
L_logs      == <<"*", ".", "l", "o", "g">>
L_notkeep   == <<"!">> \o KEEP
L_build     == BUILD
L_builddir  == BUILD \o <<"/">>
L_notopy    == <<"!">> \o OPY
L_comment   == <<"#", " ", "c">>
L_anchored  == <<" ", "/">> \o XLOG \o <<" ">>

\* ------------------------------------------------------------------ state
VARIABLES
  text,              \* file system: the .gitignore file of each directory
  bad,               \* file system: the plain files that are not valid UTF-8
  paths,             \* cli: the positional arguments
  stdin_paths,       \* cli: read_paths_from_stdin()
  opt,               \* cli: the options of the run
  run,               \* number of the cli() run in this process
  pc,                \* position of the run
  global_index,      \* the module's global_index
  i,                 \* cli: position of the loop over all_paths
  all_patterns,      \* process_path: all_patterns
  gitignore_spec,    \* process_path: gitignore_spec
  cstack,            \* process_path: directories the first os.walk has yet to yield
  wstack,            \* process_path: directories the second os.walk has yet to yield
  visited,           \* the directories the second os.walk has yielded for this root
  files_to_process,  \* process_path: files_to_process
  queue,             \* process_path: what is left of sorted(files_to_process)
  out,               \* what the run has written through writer
  err                \* the warnings the run has written to stderr

vars == <<text, bad, paths, stdin_paths, opt, run, pc, global_index, i,
          all_patterns, gitignore_spec, cstack, wstack, visited,
          files_to_process, queue, out, err>>

fsvars == <<text, bad, paths, stdin_paths, opt>>

all_paths == paths \o stdin_paths

GitignoreFiles == {d \o <<GITIGNORE>> : d \in {g \in TreeDirs : text[g].exists}}

Files == TreeFiles \cup GitignoreFiles

isfile(p) == p \in Files
isdir(p)  == p \in TreeDirs
exists(p) == isfile(p) \/ isdir(p)

\* open(p, encoding="utf-8").read() succeeds
Decodable(p) ==
  IF p \in GitignoreFiles THEN text[SubSeq(p, 1, Len(p) - 1)].utf8 ELSE p \notin bad

Parent(p) == SubSeq(p, 1, Len(p) - 1)
Name(p)   == p[Len(p)]

\* the names os.walk lists in directory d
SubdirNames(d) == {Name(p) : p \in {q \in TreeDirs : Len(q) > 1 /\ Parent(q) = d}}
FileNames(d)   == {Name(p) : p \in {q \in Files : Parent(q) = d}}

\* Path(root).relative_to(base_path) / item, as the components under base
RelativeTo(p, base) == SubSeq(p, Len(base) + 1, Len(p))

\* every order in which a directory listing may give the names of S
Perms(S) == {s \in [1..Cardinality(S) -> S] : Range(s) = S}

\* sorted(files_to_process): ascending in the order of the path strings
NoSort(fs) == fs

Sorted(fs) == SortSeq(fs, LAMBDA a, b : StrLess(PathStr(a), PathStr(b)))

\* ------------------------------------------------- process_path, the parts
\* the lines added as they are, whatever the directory of the .gitignore
GitignoreLinesVerbatim(d, base) ==
  LET raw      == text[d].lines
      stripped == [k \in 1..Len(raw) |-> strip(raw[k])]
  IN  SelectSeq(stripped, LAMBDA l : l # <<>> /\ ~startswith(l, <<"#">>))

\* The lines a .gitignore in directory d adds to all_patterns (lines 115-124)
GitignoreLines(d, base) ==
  LET raw      == text[d].lines
      stripped == [k \in 1..Len(raw) |-> strip(raw[k])]
      kept     == SelectSeq(stripped, LAMBDA l : l # <<>> /\ ~startswith(l, <<"#">>))
      rel      == PathStr(RelativeTo(d, base))
  IN  [k \in 1..Len(kept) |->
         IF rel = <<".">> THEN kept[k] ELSE rel \o <<"/">> \o kept[k]]

\* lines 136-138, on the names of dirs or of files
AfterHidden(names) ==
  IF ~opt.include_hidden THEN {n \in names : ~startswith(n, <<".">>)} ELSE names

\* directories filtered whatever ignore_files_only says
DirsAfterIgnoreAlways(ds) ==
  IF opt.ignore_patterns # <<>>
  THEN {d \in ds : ~AnyFnmatch(d, opt.ignore_patterns)}
  ELSE ds

\* lines 141-143
DirsAfterIgnore(ds) ==
  IF opt.ignore_patterns # <<>> /\ ~opt.ignore_files_only
  THEN {d \in ds : ~AnyFnmatch(d, opt.ignore_patterns)}
  ELSE ds

\* lines 141 and 144
FilesAfterIgnore(fs) ==
  IF opt.ignore_patterns # <<>>
  THEN {f \in fs : ~AnyFnmatch(f, opt.ignore_patterns)}
  ELSE fs

\* lines 147-153, on the names of dirs or of files listed in root
AfterGitignore(names, root, base) ==
  {n \in names : ~MatchFile(gitignore_spec, RelativeTo(root \o <<n>>, base))}

\* lines 156-157
AfterExtensions(fs) ==
  IF opt.extensions # <<>> THEN {f \in fs : endswith(f, opt.extensions)} ELSE fs

\* the gitignore filter applied to the files only
WalkDirsNoGitignore(root, base) ==
  DirsAfterIgnore(AfterHidden(SubdirNames(root)))

\* dirs[:] and files when the loop body of line 134 reaches line 159
WalkDirs(root, base) ==
  AfterGitignore(DirsAfterIgnore(AfterHidden(SubdirNames(root))), root, base)

WalkFiles(root, base) ==
  AfterExtensions(
    AfterGitignore(FilesAfterIgnore(AfterHidden(FileNames(root))), root, base))

\* print_path: the block the chosen renderer writes for one file.  arg is
\* not written: it records which element of all_paths the block is for.
Rendered(p, arg) ==
  IF opt.claude_xml
  THEN [t |-> "document", index |-> global_index, source |-> PathStr(p), arg |-> arg]
  ELSE IF opt.markdown
  THEN [t |-> "markdown", source |-> PathStr(p), arg |-> arg]
  ELSE [t |-> "plain", source |-> PathStr(p), arg |-> arg]

Warning(p, arg) == [t |-> "skipping", source |-> PathStr(p), arg |-> arg]

\* a counter that also advances when the file is skipped
ReadAndPrintCounting(p) ==
  IF Decodable(p)
  THEN /\ out' = Append(out, Rendered(p, i))
       /\ global_index' = IF opt.claude_xml THEN global_index + 1 ELSE global_index
       /\ err' = err
  ELSE /\ err' = Append(err, Warning(p, i))
       /\ global_index' = IF opt.claude_xml THEN global_index + 1 ELSE global_index
       /\ out' = out

\* open, read and print_path, or the warning of the except branch
\* (lines 96-101 and 163-175); print_as_xml increments global_index
ReadAndPrint(p) ==
  IF Decodable(p)
  THEN /\ out' = Append(out, Rendered(p, i))
       /\ global_index' = IF opt.claude_xml THEN global_index + 1 ELSE global_index
       /\ err' = err
  ELSE /\ err' = Append(err, Warning(p, i))
       /\ UNCHANGED <<out, global_index>>

NoLocals ==
  /\ all_patterns' = <<>>
  /\ gitignore_spec' = <<>>
  /\ cstack' = <<>>
  /\ wstack' = <<>>
  /\ visited' = {}
  /\ files_to_process' = <<>>
  /\ queue' = <<>>

locals == <<all_patterns, gitignore_spec, cstack, wstack, visited,
            files_to_process, queue>>

\* ---------------------------------------------------------------- actions
\* click.Path(exists=True) on the positional arguments (line 190): a
\* positional path that does not exist ends the run before cli's body
ArgumentError ==
  /\ pc = "args"
  /\ \E k \in 1..Len(paths) : ~exists(paths[k])
  /\ pc' = "usage_error"
  /\ UNCHANGED <<fsvars, run, global_index, i, locals, out, err>>

\* a run that does not reset the counter
StartNoReset ==
  /\ pc = "args"
  /\ \A k \in 1..Len(paths) : exists(paths[k])
  /\ global_index' = global_index
  /\ out' = IF opt.claude_xml THEN <<[t |-> "documents_open"]>> ELSE <<>>
  /\ i' = 1
  /\ pc' = "loop"
  /\ UNCHANGED <<fsvars, run, locals, err>>

\* cli, lines 263-279
Start ==
  /\ pc = "args"
  /\ \A k \in 1..Len(paths) : exists(paths[k])
  /\ global_index' = 1
  /\ out' = IF opt.claude_xml THEN <<[t |-> "documents_open"]>> ELSE <<>>
  /\ i' = 1
  /\ pc' = "loop"
  /\ UNCHANGED <<fsvars, run, locals, err>>

\* a loop that skips a path that does not exist
PathMissingSkipped ==
  /\ pc = "loop"
  /\ i <= Len(all_paths)
  /\ ~exists(all_paths[i])
  /\ i' = i + 1
  /\ UNCHANGED <<fsvars, run, pc, global_index, locals, out, err>>

\* cli, lines 282-283
PathMissing ==
  /\ pc = "loop"
  /\ i <= Len(all_paths)
  /\ ~exists(all_paths[i])
  /\ pc' = "usage_error"
  /\ UNCHANGED <<fsvars, run, global_index, i, locals, out, err>>

\* a file argument put through the hidden filter
ProcessFileFiltered ==
  /\ pc = "loop"
  /\ i <= Len(all_paths)
  /\ isfile(all_paths[i])
  /\ IF ~opt.include_hidden /\ startswith(Name(all_paths[i]), <<".">>)
     THEN UNCHANGED <<out, err, global_index>>
     ELSE ReadAndPrint(all_paths[i])
  /\ i' = i + 1
  /\ UNCHANGED <<fsvars, run, pc, locals>>

\* process_path on a file, lines 95-102
ProcessFile ==
  /\ pc = "loop"
  /\ i <= Len(all_paths)
  /\ isfile(all_paths[i])
  /\ ReadAndPrint(all_paths[i])
  /\ i' = i + 1
  /\ UNCHANGED <<fsvars, run, pc, locals>>

\* process_path on a directory, lines 104-109: the first os.walk starts,
\* unless ignore_gitignore skips it
EnterDirectory ==
  /\ pc = "loop"
  /\ i <= Len(all_paths)
  /\ isdir(all_paths[i])
  /\ all_patterns' = <<>>
  /\ cstack' = IF opt.ignore_gitignore THEN <<>> ELSE <<all_paths[i]>>
  /\ pc' = "collect"
  /\ UNCHANGED <<fsvars, run, global_index, i, gitignore_spec, wstack, visited,
                 files_to_process, queue, out, err>>

\* one directory of the first os.walk, lines 109-128
CollectStep ==
  /\ pc = "collect"
  /\ cstack # <<>>
  /\ LET d == Head(cstack) IN
       /\ \E order \in Perms(SubdirNames(d)) :
             cstack' = [k \in 1..Len(order) |-> d \o <<order[k]>>] \o Tail(cstack)
       /\ IF text[d].exists /\ text[d].utf8
          THEN /\ all_patterns' = all_patterns \o GitignoreLines(d, all_paths[i])
               /\ err' = err
          ELSE IF text[d].exists
          THEN /\ err' = Append(err, [t |-> "skipping_gitignore",
                                      source |-> PathStr(d \o <<GITIGNORE>>), arg |-> i])
               /\ all_patterns' = all_patterns
          ELSE UNCHANGED <<all_patterns, err>>
  /\ UNCHANGED <<fsvars, run, pc, global_index, i, gitignore_spec, wstack, visited,
                 files_to_process, queue, out>>

\* lines 131-134: the spec is built and the second os.walk starts
BeginWalk ==
  /\ pc = "collect"
  /\ cstack = <<>>
  /\ gitignore_spec' = PathSpecFromLines(all_patterns)
  /\ files_to_process' = <<>>
  /\ wstack' = <<all_paths[i]>>
  /\ visited' = {}
  /\ pc' = "walk"
  /\ UNCHANGED <<fsvars, run, global_index, i, all_patterns, cstack, queue, out, err>>

\* a walk that renders the files of each directory as it visits it
WalkStepStreaming ==
  /\ pc = "walk"
  /\ wstack # <<>>
  /\ LET root == Head(wstack)
         base == all_paths[i]
     IN  /\ \E order \in Perms(WalkDirs(root, base)) :
               wstack' = [k \in 1..Len(order) |-> root \o <<order[k]>>] \o Tail(wstack)
         /\ \E order \in Perms(WalkFiles(root, base)) :
               /\ files_to_process' =
                    files_to_process \o [k \in 1..Len(order) |-> root \o <<order[k]>>]
               /\ out' = out \o [k \in 1..Len(order) |-> Rendered(root \o <<order[k]>>, i)]
         /\ visited' = visited \cup {root}
  /\ UNCHANGED <<fsvars, run, pc, global_index, i, all_patterns, gitignore_spec,
                 cstack, queue, err>>

\* one directory of the second os.walk, lines 134-160
WalkStep ==
  /\ pc = "walk"
  /\ wstack # <<>>
  /\ LET root == Head(wstack)
         base == all_paths[i]
     IN  /\ \E order \in Perms(WalkDirs(root, base)) :
               wstack' = [k \in 1..Len(order) |-> root \o <<order[k]>>] \o Tail(wstack)
         /\ \E order \in Perms(WalkFiles(root, base)) :
               files_to_process' =
                  files_to_process \o [k \in 1..Len(order) |-> root \o <<order[k]>>]
         /\ visited' = visited \cup {root}
  /\ UNCHANGED <<fsvars, run, pc, global_index, i, all_patterns, gitignore_spec,
                 cstack, queue, out, err>>

\* line 162: sorted(files_to_process)
SortFiles ==
  /\ pc = "walk"
  /\ wstack = <<>>
  /\ queue' = Sorted(files_to_process)
  /\ pc' = "emit"
  /\ UNCHANGED <<fsvars, run, global_index, i, all_patterns, gitignore_spec,
                 cstack, wstack, visited, files_to_process, out, err>>

\* one file of the loop of lines 162-175
EmitFile ==
  /\ pc = "emit"
  /\ queue # <<>>
  /\ ReadAndPrint(Head(queue))
  /\ queue' = Tail(queue)
  /\ UNCHANGED <<fsvars, run, pc, i, all_patterns, gitignore_spec, cstack, wstack,
                 visited, files_to_process>>

\* process_path returns to the loop of line 281
ReturnFromPath ==
  /\ pc = "emit"
  /\ queue = <<>>
  /\ i' = i + 1
  /\ pc' = "loop"
  /\ NoLocals
  /\ UNCHANGED <<fsvars, run, global_index, out, err>>

\* cli, lines 297-300
Finish ==
  /\ pc = "loop"
  /\ i > Len(all_paths)
  /\ out' = IF opt.claude_xml THEN Append(out, [t |-> "documents_close"]) ELSE out
  /\ pc' = "done"
  /\ UNCHANGED <<fsvars, run, global_index, i, locals, err>>

\* cli is called again in the same process: global_index is the module's
\* and stays as the last run left it
NextRun ==
  /\ pc \in {"done", "usage_error"}
  /\ run < MaxRuns
  /\ run' = run + 1
  /\ pc' = "args"
  /\ i' = 0
  /\ out' = <<>>
  /\ err' = <<>>
  /\ UNCHANGED <<fsvars, global_index, locals>>

Next ==
  \/ ArgumentError
  \/ Start
  \/ PathMissing
  \/ ProcessFile
  \/ EnterDirectory
  \/ CollectStep
  \/ BeginWalk
  \/ WalkStep
  \/ SortFiles
  \/ EmitFile
  \/ ReturnFromPath
  \/ Finish
  \/ NextRun

\* ------------------------------------------------------------------- Init
TextOf(rootText, subText) ==
  [d \in TreeDirs |->
     IF d = <<R>> THEN rootText ELSE IF d = <<R, SUB>> THEN subText ELSE NoFile]

RootTexts ==
  { NoFile, Binary,
    Text(<<L_logs, L_notkeep>>),
    Text(<<L_build, L_notopy>>),
    Text(<<L_comment, <<>>, L_anchored>>) }

SubTexts ==
  { NoFile, Text(<<L_builddir>>), Text(<<L_logs, L_notkeep>>) }

Options(ext, hidden, filesOnly, noGitignore, ignore, cxml, md) ==
  [extensions |-> ext, include_hidden |-> hidden, ignore_files_only |-> filesOnly,
   ignore_gitignore |-> noGitignore, ignore_patterns |-> ignore,
   claude_xml |-> cxml, markdown |-> md]

FilterOptions(noGitignore) ==
  { Options(ext, hidden, filesOnly, noGitignore, ignore, FALSE, FALSE) :
      ext \in {<<>>, << <<"p", "y">> >>},
      hidden \in BOOLEAN,
      filesOnly \in BOOLEAN,
      ignore \in {<<>>, <<BUILD>>, <<L_logs>>} }

\* plain, XML and Markdown (the formats are documented as exclusive)
FormatOptions ==
  { Options(<<>>, TRUE, FALSE, FALSE, <<>>, f[1], f[2]) :
      f \in { <<FALSE, FALSE>>, <<TRUE, FALSE>>, <<FALSE, TRUE>> } }

\* one root or one file, every combination of the filters and the .gitignore files
FilterRuns ==
  { [text |-> tx, bad |-> {}, paths |-> <<p>>, stdin_paths |-> <<>>, opt |-> o] :
      tx \in {TextOf(a, b) : a \in RootTexts, b \in SubTexts},
      p \in {<<R>>, <<R, SUB>>, <<R, SUB, XLOG>>, <<R, SUB, GITIGNORE>>},
      o \in FilterOptions(FALSE) }
  \cup
  { [text |-> TextOf(Text(<<L_logs, L_notkeep>>), Text(<<L_builddir>>)),
     bad |-> {}, paths |-> <<p>>, stdin_paths |-> <<>>, opt |-> o] :
      p \in {<<R>>, <<R, SUB, XLOG>>},
      o \in FilterOptions(TRUE) }

Targets == { <<R, SUB, BUILD>>, <<R, BUILD>>, <<R, SUB, KEEP>>, <<GONE>> }

PathLists == UNION { [1..n -> Targets] : n \in 0..MaxPaths }

\* a list of paths and the number of them given on the command line
SplitLists == { s \in PathLists \X (0..MaxPaths) : s[2] <= Len(s[1]) }

\* every list of paths, split between the command line and stdin, in every format
FormatRuns ==
  { [text |-> TextOf(NoFile, NoFile), bad |-> b,
     paths |-> SubSeq(s[1], 1, s[2]),
     stdin_paths |-> SubSeq(s[1], s[2] + 1, Len(s[1])), opt |-> o] :
      b \in { {}, {<<R, SUB, KEEP>>, <<R, SUB, BUILD, BUILD>>} },
      s \in SplitLists,
      o \in FormatOptions }

Init ==
  /\ \E c \in FilterRuns \cup FormatRuns :
        /\ text = c.text
        /\ bad = c.bad
        /\ paths = c.paths
        /\ stdin_paths = c.stdin_paths
        /\ opt = c.opt
  /\ run = 1
  /\ pc = "args"
  /\ global_index = 1
  /\ i = 0
  /\ all_patterns = <<>>
  /\ gitignore_spec = <<>>
  /\ cstack = <<>>
  /\ wstack = <<>>
  /\ visited = {}
  /\ files_to_process = <<>>
  /\ queue = <<>>
  /\ out = <<>>
  /\ err = <<>>

Spec == Init /\ [][Next]_vars

\* ----------------------------------------------------- what the claims use
Base == all_paths[i]

Under(p, d) == Len(p) > Len(d) /\ SubSeq(p, 1, Len(d)) = d

IsBlock(e) == e.t \in {"document", "markdown", "plain"}

\* the sources of the blocks written, and of the files skipped, for all_paths[k]
EmittedFor(k) ==
  LET sel == SelectSeq(out, LAMBDA e : IsBlock(e) /\ e.arg = k)
  IN  [j \in 1..Len(sel) |-> sel[j].source]

SkippedFor(k) ==
  LET sel == SelectSeq(err, LAMBDA e : e.t = "skipping" /\ e.arg = k)
  IN  [j \in 1..Len(sel) |-> sel[j].source]

\* seq lists the path strings of the files of S once each, in ascending order
AscendingOf(seq, S) ==
  /\ Len(seq) = Cardinality(S)
  /\ Range(seq) = {PathStr(f) : f \in S}
  /\ \A j \in 1..Len(seq) : \A k \in 1..Len(seq) : j < k => StrLess(seq[j], seq[k])

Hidden(name) == startswith(name, <<".">>)

\* the entry (a directory or a file of the root at base) is dropped by the
\* hidden filter, by the ignore-glob filter, by the gitignore filter
DroppedByHidden(p) == ~opt.include_hidden /\ Hidden(Name(p))

DroppedByIgnore(p) ==
  /\ AnyFnmatch(Name(p), opt.ignore_patterns)
  /\ (isdir(p) => ~opt.ignore_files_only)

DroppedByGitignore(p, base) == MatchFile(gitignore_spec, RelativeTo(p, base))

DroppedByExtension(p) ==
  /\ isfile(p)
  /\ opt.extensions # <<>>
  /\ ~endswith(Name(p), opt.extensions)

PassesFilters(p, base) ==
  /\ ~DroppedByHidden(p)
  /\ ~DroppedByIgnore(p)
  /\ ~DroppedByGitignore(p, base)
  /\ ~DroppedByExtension(p)

\* the files under base that pass the four filters, in a directory all of
\* whose ancestors under base pass them too
Surviving(base) ==
  { f \in Files :
      /\ Under(f, base)
      /\ \A k \in (Len(base) + 1)..Len(f) : PassesFilters(SubSeq(f, 1, k), base) }

WalkDone == pc = "emit"
AllEmitted == pc = "emit" /\ queue = <<>>

\* C1: process_path on a directory root emits exactly the files that pass
\* the hidden, ignore-glob, gitignore and extension filters (in a directory
\* the walk reaches), in the ascending order of their path strings, whatever
\* order the directory listings had.
C1_EmitsSurvivingSorted ==
  /\ WalkDone => Range(files_to_process) = Surviving(Base)
  /\ AllEmitted => AscendingOf(EmittedFor(i), {f \in Surviving(Base) : Decodable(f)})

\* a root whose listing order was not the sorted order, with files dropped by
\* the hidden and by the extension filter
C1_Witness ==
  /\ AllEmitted
  /\ Base = <<R>>
  /\ Len(EmittedFor(i)) >= 2
  /\ \E j \in 1..(Len(files_to_process) - 1) :
        StrLess(PathStr(files_to_process[j + 1]), PathStr(files_to_process[j]))
  /\ \E f \in Files : Under(f, Base) /\ DroppedByExtension(f)
  /\ \E f \in Files : Under(f, Base) /\ DroppedByHidden(f)

XmlBlocks == SelectSeq(out, LAMBDA e : e.t = "document")

\* C2: an undecodable file is skipped with exactly one warning and no
\* block, every decodable file is rendered in order, the run is not aborted
\* by it, and in XML mode the counter advances only with a block written:
\* the blocks carry 1, 2, ... with no gap at a skipped file.
C2_DecodeFailureIsolated ==
  /\ AllEmitted =>
       /\ AscendingOf(EmittedFor(i), {f \in Range(files_to_process) : Decodable(f)})
       /\ AscendingOf(SkippedFor(i), {f \in Range(files_to_process) : ~Decodable(f)})
  /\ (opt.claude_xml /\ pc \notin {"args"}) =>
       /\ global_index = Len(XmlBlocks) + 1
       /\ \A k \in 1..Len(XmlBlocks) : XmlBlocks[k].index = k
  /\ pc = "usage_error" => \E k \in 1..Len(all_paths) : ~exists(all_paths[k])

\* three files, the second of them not UTF-8, in XML mode
C2_Witness ==
  /\ AllEmitted
  /\ opt.claude_xml
  /\ Len(files_to_process) = 3
  /\ ~Decodable(Sorted(files_to_process)[2])
  /\ Len(SkippedFor(i)) = 1
  /\ Len(XmlBlocks) = 2
  /\ XmlBlocks[2].index = 2
  /\ XmlBlocks[2].source = PathStr(Sorted(files_to_process)[3])

MissingAt == {k \in 1..Len(all_paths) : ~exists(all_paths[k])}
FirstMissing == CHOOSE k \in MissingAt : \A h \in MissingAt : k <= h
PositionalMissing == \E k \in 1..Len(paths) : ~exists(paths[k])

\* everything written for a path came from a path before position k
NothingFrom(k) ==
  /\ \A j \in 1..Len(out) : IsBlock(out[j]) => out[j].arg < k
  /\ \A j \in 1..Len(err) : err[j].arg < k

\* the file given as all_paths[k] has been read and rendered, or skipped
FileHandled(k) ==
  IF Decodable(all_paths[k])
  THEN EmittedFor(k) = <<PathStr(all_paths[k])>> /\ SkippedFor(k) = <<>>
  ELSE EmittedFor(k) = <<>> /\ SkippedFor(k) = <<PathStr(all_paths[k])>>

\* C3 as stated: the run aborts when the missing path is reached, so every
\* path before it has been processed and what it wrote is in the output.
C3_AbortsWhenReached ==
  pc = "usage_error" =>
     /\ NothingFrom(FirstMissing)
     /\ \A k \in 1..(FirstMissing - 1) :
           /\ k < i
           /\ isfile(all_paths[k]) => FileHandled(k)

\* C3 as amended: nothing is ever written for a missing path or a path
\* after it, and a run with a missing path does not complete.  A missing
\* path that came from stdin aborts the run when the loop reaches it, with
\* the output of the paths before it in place; a missing positional
\* argument aborts the run at argument validation, before anything is
\* written, the output of the paths before it included.
C3_AbortAtMissingPath ==
  /\ MissingAt # {} =>
       /\ NothingFrom(FirstMissing)
       /\ pc # "done"
  /\ pc = "usage_error" =>
       /\ MissingAt # {}
       /\ IF PositionalMissing
          THEN out = <<>> /\ err = <<>>
          ELSE /\ i = FirstMissing
               /\ opt.claude_xml => out # <<>> /\ out[1].t = "documents_open"
               /\ \A k \in 1..(FirstMissing - 1) : isfile(all_paths[k]) => FileHandled(k)

\* a path from stdin is missing, after a path whose output is in place
C3_Witness ==
  /\ pc = "usage_error"
  /\ ~PositionalMissing
  /\ FirstMissing = 2
  /\ Len(EmittedFor(1)) >= 1

\* C4: in XML mode the output of a completed run is wrapped in <documents>
\* and </documents>, and the k-th document block of the run, counted over
\* all the path arguments, carries index k, in every run of the process.
C4_XmlIndexAndWrapper ==
  opt.claude_xml =>
     /\ \A k \in 1..Len(XmlBlocks) : XmlBlocks[k].index = k
     /\ \A k \in 1..Len(out) : out[k].t \in {"documents_open", "document", "documents_close"}
     /\ \A k \in 1..Len(out) : out[k].t = "documents_open" <=> k = 1
     /\ \A k \in 1..Len(out) : out[k].t = "documents_close" => (k = Len(out) /\ pc = "done")
     /\ pc = "done" => Len(out) >= 2 /\ out[Len(out)].t = "documents_close"

\* a second run in the process, with blocks from two path arguments
C4_Witness ==
  /\ opt.claude_xml
  /\ run = 2
  /\ pc = "done"
  /\ Len(XmlBlocks) >= 3
  /\ \E k \in 1..Len(XmlBlocks) : XmlBlocks[k].arg = 1
  /\ \E k \in 1..Len(XmlBlocks) : XmlBlocks[k].arg = 2

\* the lines of a .gitignore that are rules: stripped, not empty, no comment
RuleLines(d) ==
  LET raw == text[d].lines
  IN  { strip(raw[k]) : k \in {j \in 1..Len(raw) :
                                 strip(raw[j]) # <<>> /\ strip(raw[j])[1] # "#"} }

\* the directories of the root at base whose .gitignore is read
RuleDirs(base) ==
  { d \in TreeDirs : (d = base \/ Under(d, base)) /\ text[d].exists /\ text[d].utf8 }

\* rule line of the .gitignore in d, as process_path is to store it
Stored(d, line, base) ==
  IF d = base THEN line ELSE PathStr(RelativeTo(d, base)) \o <<"/">> \o line

\* the stored pattern excludes the entry: it matches it and is no negation
Excludes(pattern, p, base) ==
  LET r == PatternToRegex(pattern)
  IN  r.regex /\ r.include /\ SegsMatch(r.segs, RelativeTo(p, base))

Collected == pc \in {"walk", "emit"} /\ ~opt.ignore_gitignore

\* C5: a rule of the .gitignore of a subdirectory d of the root is stored
\* as d/rule (as it is, when d is the root), and so excludes entries under d
\* only: build/ in sub/.gitignore excludes everything below sub/build and
\* leaves the build directory of the root and its files alone.
C5_GitignoreAnchored ==
  /\ Collected =>
       /\ Range(all_patterns) =
            UNION { {Stored(d, l, Base) : l \in RuleLines(d)} : d \in RuleDirs(Base) }
       /\ \A d \in RuleDirs(Base) \ {Base} : \A l \in RuleLines(d) :
             \A p \in Files \cup TreeDirs :
                (Under(p, Base) /\ ~Under(p, d)) => ~Excludes(Stored(d, l, Base), p, Base)
  /\ (WalkDone /\ Base = <<R>> /\ ~opt.ignore_gitignore
        /\ L_builddir \in RuleLines(<<R, SUB>>)) =>
       /\ \A f \in Range(files_to_process) : ~Under(f, <<R, SUB, BUILD>>)
       /\ (text[<<R>>] = NoFile /\ ~DroppedByIgnore(<<R, BUILD>>)
             /\ ~DroppedByIgnore(<<R, BUILD, OPY>>)) =>
            (<<R, BUILD>> \in visited /\ <<R, BUILD, OPY>> \in Range(files_to_process))

\* build/ in sub/.gitignore: the files of sub/build would pass the other
\* filters and are left out, the file of the root's build is kept
C5_Witness ==
  /\ WalkDone
  /\ Base = <<R>>
  /\ all_patterns = <<SUB \o <<"/">> \o L_builddir>>
  /\ opt.include_hidden /\ opt.ignore_patterns = <<>> /\ opt.extensions = <<>>
  /\ <<R, BUILD, OPY>> \in Range(files_to_process)
  /\ <<R, SUB, KEEP>> \in Range(files_to_process)
  /\ \A f \in Range(files_to_process) : ~Under(f, <<R, SUB, BUILD>>)

\* C6: where a .gitignore, of the root or of a subdirectory, holds *.log
\* followed by !keep.log (the only .gitignore of the tree here), keep.log of
\* its directory is kept and the other .log files of the directory are not.
C6_NegationReincludes ==
  \A d \in TreeDirs :
     ( /\ WalkDone
       /\ ~opt.ignore_gitignore
       /\ d \in visited
       /\ text[d] = Text(<<L_logs, L_notkeep>>)
       /\ \A e \in TreeDirs \ {d} : ~text[e].exists
       /\ ~DroppedByIgnore(d \o <<KEEP>>)
       /\ ~DroppedByExtension(d \o <<KEEP>>) )
     => /\ d \o <<KEEP>> \in Range(files_to_process)
        /\ d \o <<XLOG>> \notin Range(files_to_process)

\* C7: with ignore-files-only, a directory whose name matches an
\* ignore-glob is not pruned by the ignore-glob filter (it is visited unless
\* the hidden or the gitignore filter drops it, and its files are filtered on
\* their own names); without it the directory is pruned; in both cases no
\* file whose base name matches an ignore-glob is kept.
C7_IgnoreFilesOnly ==
  WalkDone =>
     /\ \A d \in TreeDirs :
          (Under(d, Base) /\ Parent(d) \in visited
             /\ AnyFnmatch(Name(d), opt.ignore_patterns)) =>
            IF opt.ignore_files_only
            THEN d \in visited <=>
                   (~DroppedByHidden(d) /\ ~DroppedByGitignore(d, Base))
            ELSE d \notin visited
     /\ \A f \in Range(files_to_process) : ~AnyFnmatch(Name(f), opt.ignore_patterns)
     /\ \A f \in Files :
          (Under(f, Base) /\ Parent(f) \in visited) =>
            (f \in Range(files_to_process) <=> PassesFilters(f, Base))

\* ignore-glob build, files only: the directory sub/build is visited, its
\* file o.py is kept and its file named build is not
C7_Witness ==
  /\ WalkDone
  /\ Base = <<R>>
  /\ opt.ignore_files_only
  /\ opt.ignore_patterns = <<BUILD>>
  /\ <<R, SUB, BUILD>> \in visited
  /\ <<R, SUB, BUILD, OPY>> \in Range(files_to_process)
  /\ <<R, SUB, BUILD, BUILD>> \notin Range(files_to_process)

\* C8: a path argument that is a file is emitted whatever the filters are:
\* once it is processed there is exactly one block for it and no warning,
\* or, when it is not UTF-8, exactly one warning and no block.
C8_FileTargetUnfiltered ==
  \A k \in 1..Len(all_paths) :
     (k < i /\ isfile(all_paths[k])) => FileHandled(k)

\* a hidden file, that the ignore-glob and the root's .gitignore match and
\* the extension list does not, is emitted
C8_Witness ==
  /\ pc = "done"
  /\ all_paths = << <<R, SUB, GITIGNORE>> >>
  /\ ~opt.include_hidden
  /\ opt.extensions # <<>>
  /\ EmittedFor(1) = <<PathStr(<<R, SUB, GITIGNORE>>)>>

\* the number of rule lines in the .gitignore files the collection pass reads
NumRules(base) ==
  Cardinality(UNION { {<<d, k>> : k \in 1..Len(GitignoreLines(d, base))} :
                        d \in RuleDirs(base) })

\* C9: for a directory root, the collection pass is complete before the
\* filtered walk visits a directory, and the walk is complete, with the
\* list assembled, before a file of the root is read or rendered; the rule
\* set is the one built from the collected patterns all along the walk.
C9_PassesInOrder ==
  /\ pc \in {"walk", "emit"} =>
       /\ cstack = <<>>
       /\ gitignore_spec = PathSpecFromLines(all_patterns)
       /\ Len(all_patterns) = IF opt.ignore_gitignore THEN 0 ELSE NumRules(Base)
  /\ pc = "collect" => (visited = {} /\ wstack = <<>> /\ files_to_process = <<>>)
  /\ pc \in {"collect", "walk"} => (EmittedFor(i) = <<>> /\ SkippedFor(i) = <<>>)
  /\ pc = "emit" =>
       /\ wstack = <<>>
       /\ LET all == Sorted(files_to_process)
          IN  queue = SubSeq(all, Len(all) - Len(queue) + 1, Len(all))

\* files are being rendered after a walk over several directories under rules
C9_Witness ==
  /\ pc = "emit"
  /\ Len(EmittedFor(i)) >= 1
  /\ queue # <<>>
  /\ Cardinality(visited) >= 3
  /\ all_patterns # <<>>

DroppedDir(d, base) ==
  DroppedByHidden(d) \/ DroppedByIgnore(d) \/ DroppedByGitignore(d, base)

\* C10: a subdirectory dropped by the hidden, the ignore-glob or the
\* gitignore filter is not visited, nor is anything below it, and no file
\* under it is collected or emitted, whatever the file's own name; the
\* directories visited are those no filter but the extension filter can
\* decide.
C10_PruningIsFinal ==
  pc \in {"walk", "emit"} =>
     /\ \A d \in TreeDirs :
          (Under(d, Base) /\ DroppedDir(d, Base)) =>
             /\ \A v \in visited : v # d /\ ~Under(v, d)
             /\ \A k \in 1..Len(wstack) : wstack[k] # d /\ ~Under(wstack[k], d)
             /\ \A f \in Range(files_to_process) : ~Under(f, d)
             /\ \A k \in 1..Len(EmittedFor(i)) :
                   ~startswith(EmittedFor(i)[k], PathStr(d) \o <<"/">>)
     /\ WalkDone =>
          visited = { d \in TreeDirs :
                        /\ d = Base \/ Under(d, Base)
                        /\ \A k \in (Len(Base) + 1)..Len(d) :
                              ~DroppedDir(SubSeq(d, 1, k), Base) }

\* build is dropped by the rule build of the root's .gitignore; its file
\* o.py passes every filter on its own (the rule !o.py) and is not emitted
C10_Witness ==
  /\ AllEmitted
  /\ Base = <<R>>
  /\ all_patterns = <<L_build, L_notopy>>
  /\ DroppedByGitignore(<<R, BUILD>>, Base)
  /\ PassesFilters(<<R, BUILD, OPY>>, Base)
  /\ <<R, BUILD>> \notin visited
  /\ PathStr(<<R, BUILD, OPY>>) \notin Range(EmittedFor(i))
  /\ Len(EmittedFor(i)) >= 1

====
